---------------------------- MODULE Spec2Model ----------------------------
(***************************************************************************)
(* Activity log: the entry form (LogEntryForm), the coordinator (App) and  *)
(* the document store it talks to.                                         *)
(*                                                                         *)
(* Optional fields (TypeScript `x?: T`) are modelled as options: None is   *)
(* `undefined` / key absent, Some(v) is a present value.  Text is a        *)
(* sequence of characters so that trim() is computed.  An instant is a     *)
(* number of milliseconds since the model's epoch (midnight UTC of day 0); *)
(* a date string 'YYYY-MM-DD' is <<day>>, a time string 'HH:MM' is         *)
(* <<hours, minutes>> and the empty string is << >>.                       *)
(***************************************************************************)
EXTENDS Integers, Sequences, FiniteSets, Bags, TLC

VARIABLES
    \* LogEntryForm state (useState hooks)
    entryType, bathroomActivity, poopSubtype, mealNotes,
    editDate, editTime, mealSubtype, foodType,
    \* App state (useState hooks)
    logEntries, editingEntry, isLoading, error,
    \* environment: document store, calls waiting for the backend,
    \* backend/wall clock, UTC offset (minutes) of the local timezone,
    \* number of save and delete calls issued so far
    store, pending, clock, tz, issued,
    \* observation: the onSaveEntry call made by the last step (None if the
    \* last step was not a submit), whether the selected poop subtype is
    \* one the user clicked, the backend write applied by the
    \* last step (None if it applied none), whether editingEntry is the very object
    \* the list holds under its id (reference identity)
    call, picked, applied, sameRef,
    \* the relative-time formatter: the whole seconds it computed for its
    \* argument (line 198) and the text it returned (None before it returns)
    seconds, timeAgo

formVars == <<entryType, bathroomActivity, poopSubtype, mealNotes,
              editDate, editTime, mealSubtype, foodType>>
appVars  == <<logEntries, editingEntry, isLoading, error>>
envVars  == <<store, pending, clock, tz, issued>>
obsVars  == <<call, picked, applied, sameRef>>
agoVars  == <<seconds, timeAgo>>
vars     == <<formVars, appVars, envVars, obsVars, agoVars>>

---------------------------------------------------------------------------
\* Bounds of the model

MaxInFlight == 2      \* calls waiting for the backend at one time
MaxCalls    == 2      \* save and delete calls the user issues

---------------------------------------------------------------------------
\* Options

None    == << >>
Some(v) == <<v>>
IsSome(o) == o # None
Get(o)  == o[1]

---------------------------------------------------------------------------
\* types.ts

Bathroom == "BATHROOM"
Meal     == "MEAL"
LogType  == {Bathroom, Meal}

Pee  == "PEE"
Poop == "POOP"
Both == "BOTH"
BathroomActivity == {Pee, Poop, Both}

Given  == "GIVEN"
Stolen == "STOLEN"
MealSubtype == {Given, Stolen}

Small  == "SMALL"
Normal == "NORMAL"
Huge   == "HUGE"
Sick   == "SICK"
PoopSubtype == {Small, Normal, Huge, Sick}

\* LogEntryData: every field but type is optional
LogEntryData(t, a, p, ms, f, n, ts) ==
    [type |-> t, activity |-> a, poopSubtype |-> p, mealSubtype |-> ms,
     foodType |-> f, notes |-> n, timestamp |-> ts]

\* LogEntry: LogEntryData with id and a mandatory timestamp (an instant)
LogEntry(i, t, a, p, ms, f, n, ts) ==
    [id |-> i, type |-> t, activity |-> a, poopSubtype |-> p,
     mealSubtype |-> ms, foodType |-> f, notes |-> n, timestamp |-> ts]

---------------------------------------------------------------------------
\* Text

Kibble == <<"K", "i", "b", "b", "l", "e">>
Empty  == << >>
Space  == " "

RECURSIVE TrimStart(_)
TrimStart(s) == IF s # << >> /\ Head(s) = Space THEN TrimStart(Tail(s)) ELSE s

RECURSIVE TrimEnd(_)
TrimEnd(s) ==
    IF s # << >> /\ s[Len(s)] = Space
    THEN TrimEnd(SubSeq(s, 1, Len(s) - 1))
    ELSE s

\* a trim of the leading whitespace only
Trim_StartOnly(s) == TrimStart(s)

\* String.prototype.trim
Trim(s) == TrimEnd(TrimStart(s))

\* `x || d` on an optional enum value: undefined is falsy
OrDefault(o, d) == IF IsSome(o) THEN Get(o) ELSE d

\* `x || d` on an optional string: undefined and '' are falsy
OrDefaultText(o, d) == IF IsSome(o) /\ Get(o) # Empty THEN Get(o) ELSE d

---------------------------------------------------------------------------
\* Instants and the JavaScript Date operations the form uses

MsPerSecond == 1000
MsPerMinute == 60 * MsPerSecond
MsPerHour   == 60 * MsPerMinute
MsPerDay    == 24 * MsPerHour

Instant(day, h, m, s, ms) ==
    day * MsPerDay + h * MsPerHour + m * MsPerMinute + s * MsPerSecond + ms

\* the local wall-clock reading of instant t at UTC offset z (minutes)
Local(t, z)   == t + z * MsPerMinute
\* the instant whose local wall-clock reading is l
FromLocal(l, z) == l - z * MsPerMinute

\* NaN time value of an Invalid Date
InvalidDate == 0 - 1

getHours(t, z)        == (Local(t, z) % MsPerDay) \div MsPerHour
getMinutes(t, z)      == (Local(t, z) % MsPerHour) \div MsPerMinute
getSeconds(t, z)      == (Local(t, z) % MsPerMinute) \div MsPerSecond
getMilliseconds(t, z) == Local(t, z) % MsPerSecond

setHours(t, h, z) ==
    LET l == Local(t, z)
    IN  FromLocal((l - (l % MsPerDay)) + h * MsPerHour + (l % MsPerHour), z)
setMinutes(t, m, z) ==
    LET l == Local(t, z)
    IN  FromLocal((l - (l % MsPerHour)) + m * MsPerMinute + (l % MsPerMinute), z)
setSeconds(t, s, z) ==
    LET l == Local(t, z)
    IN  FromLocal((l - (l % MsPerMinute)) + s * MsPerSecond + (l % MsPerSecond), z)
setMilliseconds(t, ms, z) ==
    LET l == Local(t, z)
    IN  FromLocal((l - (l % MsPerSecond)) + ms, z)

\* new Date('YYYY-MM-DD'): a date-only string is read as midnight UTC
ParseDateOnly(d) == d[1] * MsPerDay

\* date.toISOString().split('T')[0]: the calendar date in UTC
formatDateForInput(t) == <<t \div MsPerDay>>

\* local hours and minutes, zero padded
formatTimeForInput(t, z) == <<getHours(t, z), getMinutes(t, z)>>

---------------------------------------------------------------------------
\* LogEntryForm

\* an effect that leaves the meal fields alone when a Bathroom entry is loaded
DraftFor_KeepsMealFields(e, z) ==
    IF IsSome(e)
    THEN LET x == Get(e) IN
         IF x.type = Bathroom
         THEN [entryType |-> x.type,
               bathroomActivity |-> OrDefault(x.activity, Pee),
               poopSubtype |-> OrDefault(x.poopSubtype, Normal),
               mealNotes |-> mealNotes,
               mealSubtype |-> mealSubtype,
               foodType |-> foodType,
               editDate |-> formatDateForInput(x.timestamp),
               editTime |-> formatTimeForInput(x.timestamp, z)]
         ELSE [entryType |-> x.type,
               mealNotes |-> OrDefaultText(x.notes, Empty),
               mealSubtype |-> OrDefault(x.mealSubtype, Given),
               foodType |-> OrDefaultText(x.foodType, Kibble),
               bathroomActivity |-> Pee,
               poopSubtype |-> Normal,
               editDate |-> formatDateForInput(x.timestamp),
               editTime |-> formatTimeForInput(x.timestamp, z)]
    ELSE [entryType |-> Bathroom,
          bathroomActivity |-> Pee,
          poopSubtype |-> Normal,
          mealNotes |-> Empty,
          editDate |-> Empty,
          editTime |-> Empty,
          mealSubtype |-> Given,
          foodType |-> Kibble]

\* useEffect(..., [editingEntry]), lines 31-60: the draft the effect sets
\* for the entry being edited, e = None meaning new-entry mode
DraftFor(e, z) ==
    IF IsSome(e)
    THEN LET x == Get(e) IN
         IF x.type = Bathroom
         THEN [entryType |-> x.type,
               bathroomActivity |-> OrDefault(x.activity, Pee),
               poopSubtype |-> OrDefault(x.poopSubtype, Normal),
               mealNotes |-> Empty,
               mealSubtype |-> Given,
               foodType |-> Kibble,
               editDate |-> formatDateForInput(x.timestamp),
               editTime |-> formatTimeForInput(x.timestamp, z)]
         ELSE [entryType |-> x.type,
               mealNotes |-> OrDefaultText(x.notes, Empty),
               mealSubtype |-> OrDefault(x.mealSubtype, Given),
               foodType |-> OrDefaultText(x.foodType, Kibble),
               bathroomActivity |-> Pee,
               poopSubtype |-> Normal,
               editDate |-> formatDateForInput(x.timestamp),
               editTime |-> formatTimeForInput(x.timestamp, z)]
    ELSE [entryType |-> Bathroom,
          bathroomActivity |-> Pee,
          poopSubtype |-> Normal,
          mealNotes |-> Empty,
          editDate |-> Empty,
          editTime |-> Empty,
          mealSubtype |-> Given,
          foodType |-> Kibble]

\* the draft as one record
Draft ==
    [entryType |-> entryType, bathroomActivity |-> bathroomActivity,
     poopSubtype |-> poopSubtype, mealNotes |-> mealNotes,
     editDate |-> editDate, editTime |-> editTime,
     mealSubtype |-> mealSubtype, foodType |-> foodType]

\* useEffect(..., [editingEntry]) runs
FormEffect(e) ==
    /\ entryType' = DraftFor(e, tz).entryType
    /\ bathroomActivity' = DraftFor(e, tz).bathroomActivity
    /\ poopSubtype' = DraftFor(e, tz).poopSubtype
    /\ mealNotes' = DraftFor(e, tz).mealNotes
    /\ editDate' = DraftFor(e, tz).editDate
    /\ editTime' = DraftFor(e, tz).editTime
    /\ mealSubtype' = DraftFor(e, tz).mealSubtype
    /\ foodType' = DraftFor(e, tz).foodType
    /\ picked' = FALSE

\* setEditingEntry(e) followed by the re-render: React skips the update,
\* and so the effect, when the state is set to the object it already holds
SetEditingEntry(e, sameObject) ==
    IF sameObject
    THEN UNCHANGED <<editingEntry, formVars, picked>>
    ELSE editingEntry' = e /\ FormEffect(e)

\* render, line 175: {entryType === LogType.Bathroom && (...)}
BathroomGroupVisible == entryType = Bathroom

\* a poop-subtype selector shown for Poop only
PoopSelectorVisible_PoopOnly == BathroomGroupVisible /\ bathroomActivity = Poop

\* render, line 199, inside the Bathroom group:
\* {(bathroomActivity === Poop || bathroomActivity === Both) && (...)}
PoopSelectorVisible == BathroomGroupVisible /\ bathroomActivity \in {Poop, Both}

\* render, line 225: {entryType === LogType.Meal && (...)}
MealGroupVisible == entryType = Meal

\* a type change to Bathroom that keeps the meal fields
handleEntryTypeChange_KeepsMealFields(newType) ==
    /\ newType # entryType
    /\ entryType' = newType
    /\ IF newType = Bathroom
       THEN /\ poopSubtype' = Normal
            /\ UNCHANGED <<bathroomActivity, mealNotes, mealSubtype, foodType>>
       ELSE /\ bathroomActivity' = Pee
            /\ poopSubtype' = Normal
            /\ UNCHANGED <<mealNotes, mealSubtype, foodType>>
    /\ picked' = FALSE
    /\ call' = None /\ applied' = None
    /\ UNCHANGED <<editDate, editTime, sameRef, appVars, envVars, agoVars>>

\* a type change that resets the meal fields only
handleEntryTypeChange_KeepsBathroomFields(newType) ==
    /\ newType # entryType
    /\ entryType' = newType
    /\ IF newType = Bathroom
       THEN /\ mealNotes' = Empty
            /\ mealSubtype' = Given
            /\ foodType' = Kibble
            /\ poopSubtype' = Normal
            /\ UNCHANGED bathroomActivity
       ELSE UNCHANGED <<bathroomActivity, poopSubtype, mealNotes, mealSubtype, foodType>>
    /\ picked' = FALSE
    /\ call' = None /\ applied' = None
    /\ UNCHANGED <<editDate, editTime, sameRef, appVars, envVars, agoVars>>

handleEntryTypeChange(newType) ==
    /\ newType # entryType        \* a radio fires onChange only when it becomes checked
    /\ entryType' = newType
    /\ IF newType = Bathroom
       THEN /\ mealNotes' = Empty
            /\ mealSubtype' = Given
            /\ foodType' = Kibble
            /\ poopSubtype' = Normal
            /\ UNCHANGED bathroomActivity
       ELSE /\ bathroomActivity' = Pee
            /\ poopSubtype' = Normal
            /\ UNCHANGED <<mealNotes, mealSubtype, foodType>>
    /\ picked' = FALSE
    /\ call' = None /\ applied' = None
    /\ UNCHANGED <<editDate, editTime, sameRef, appVars, envVars, agoVars>>

\* an activity change that resets the poop subtype whatever is selected
handleBathroomActivityChange_AlwaysResets(newActivity) ==
    /\ entryType = Bathroom
    /\ newActivity # bathroomActivity
    /\ bathroomActivity' = newActivity
    /\ poopSubtype' = Normal
    /\ picked' = FALSE
    /\ call' = None /\ applied' = None
    /\ UNCHANGED <<entryType, mealNotes, editDate, editTime, mealSubtype,
                   foodType, sameRef, appVars, envVars, agoVars>>

handleBathroomActivityChange(newActivity) ==
    /\ BathroomGroupVisible       \* the radios are rendered for Bathroom only
    /\ newActivity # bathroomActivity
    /\ bathroomActivity' = newActivity
    /\ poopSubtype' = IF newActivity = Pee THEN Normal ELSE poopSubtype
    /\ picked' = (picked /\ newActivity # Pee)
    /\ call' = None /\ applied' = None
    /\ UNCHANGED <<entryType, mealNotes, editDate, editTime, mealSubtype,
                   foodType, sameRef, appVars, envVars, agoVars>>

\* onChange of a poop-subtype radio
setPoopSubtype(subType) ==
    /\ PoopSelectorVisible
    /\ subType # poopSubtype
    /\ poopSubtype' = subType
    /\ picked' = TRUE
    /\ call' = None /\ applied' = None
    /\ UNCHANGED <<entryType, bathroomActivity, mealNotes, editDate, editTime,
                   mealSubtype, foodType, sameRef, appVars, envVars, agoVars>>

\* onChange of a meal-subtype radio
setMealSubtype(subType) ==
    /\ MealGroupVisible
    /\ subType # mealSubtype
    /\ mealSubtype' = subType
    /\ call' = None /\ applied' = None
    /\ UNCHANGED <<entryType, bathroomActivity, poopSubtype, mealNotes, editDate,
                   editTime, foodType, picked, sameRef, appVars, envVars, agoVars>>

\* onChange of the food-type input
setFoodType(text) ==
    /\ MealGroupVisible
    /\ text # foodType
    /\ foodType' = text
    /\ call' = None /\ applied' = None
    /\ UNCHANGED <<entryType, bathroomActivity, poopSubtype, mealNotes, editDate,
                   editTime, mealSubtype, picked, sameRef, appVars, envVars, agoVars>>

\* onChange of the notes textarea
setMealNotes(text) ==
    /\ MealGroupVisible
    /\ text # mealNotes
    /\ mealNotes' = text
    /\ call' = None /\ applied' = None
    /\ UNCHANGED <<entryType, bathroomActivity, poopSubtype, editDate, editTime,
                   mealSubtype, foodType, picked, sameRef, appVars, envVars, agoVars>>

\* onChange of the date input, rendered only while editing
setEditDate(d) ==
    /\ IsSome(editingEntry)
    /\ d # editDate
    /\ editDate' = d
    /\ call' = None /\ applied' = None
    /\ UNCHANGED <<entryType, bathroomActivity, poopSubtype, mealNotes, editTime,
                   mealSubtype, foodType, picked, sameRef, appVars, envVars, agoVars>>

\* onChange of the time input, rendered only while editing
setEditTime(t) ==
    /\ IsSome(editingEntry)
    /\ t # editTime
    /\ editTime' = t
    /\ call' = None /\ applied' = None
    /\ UNCHANGED <<entryType, bathroomActivity, poopSubtype, mealNotes, editDate,
                   mealSubtype, foodType, picked, sameRef, appVars, envVars, agoVars>>

\* handleSubmit that never sets a timestamp
SetsTimestamp_Never == FALSE

\* handleSubmit, line 101: the condition under which a timestamp is set
SetsTimestamp == IsSome(editingEntry) /\ editDate # Empty /\ editTime # Empty

\* handleSubmit, lines 102-107: the edited date and time combined with the
\* seconds and milliseconds of the original timestamp
NewTimestamp(date, time, original, z) ==
    IF Len(time) < 2
    THEN InvalidDate       \* setMinutes(undefined)
    ELSE setMilliseconds(
           setSeconds(
             setMinutes(
               setHours(ParseDateOnly(date), time[1], z),
               time[2], z),
             getSeconds(original, z), z),
           getMilliseconds(original, z), z)

\* handleSubmit without the type test of line 90: activity always set
FormData_ActivityForAnyType(ts) ==
    IF entryType = Bathroom
    THEN LogEntryData(entryType, Some(bathroomActivity),
             IF bathroomActivity \in {Poop, Both} THEN Some(poopSubtype) ELSE None,
             None, None, None, ts)
    ELSE LogEntryData(entryType, Some(bathroomActivity), None, Some(mealSubtype),
             Some(IF Trim(foodType) = Empty THEN Kibble ELSE Trim(foodType)),
             Some(Trim(mealNotes)), ts)

\* handleSubmit without the activity test of line 92: poopSubtype always set
FormData_PoopSubtypeForAnyActivity(ts) ==
    IF entryType = Bathroom
    THEN LogEntryData(entryType, Some(bathroomActivity), Some(poopSubtype),
             None, None, None, ts)
    ELSE LogEntryData(entryType, None, None, Some(mealSubtype),
             Some(IF Trim(foodType) = Empty THEN Kibble ELSE Trim(foodType)),
             Some(Trim(mealNotes)), ts)

\* handleSubmit, lines 88-99: the type-specific fields of currentFormData
FormData(ts) ==
    IF entryType = Bathroom
    THEN LogEntryData(entryType, Some(bathroomActivity),
             IF bathroomActivity \in {Poop, Both} THEN Some(poopSubtype) ELSE None,
             None, None, None, ts)
    ELSE LogEntryData(entryType, None, None, Some(mealSubtype),
             Some(IF Trim(foodType) = Empty THEN Kibble ELSE Trim(foodType)),
             Some(Trim(mealNotes)), ts)

\* handleSubmit, lines 88-109: currentFormData
currentFormData ==
    FormData(IF SetsTimestamp
             THEN Some(NewTimestamp(editDate, editTime, Get(editingEntry).timestamp, tz))
             ELSE None)

\* the date and time inputs carry `required`: the browser does not fire the
\* submit event while one of them is rendered and empty
FormIsValid == IsSome(editingEntry) => (editDate # Empty /\ editTime # Empty)

\* handleSubmit, line 111: editingEntry?.id
editingEntryId == IF IsSome(editingEntry) THEN Some(Get(editingEntry).id) ELSE None

\* handleSubmit up to its call of the onSaveEntry prop, which the parent
\* supplies: onSaveEntry(currentFormData, editingEntry?.id)
handleSubmit ==
    /\ FormIsValid
    /\ call' = Some([data |-> currentFormData, id |-> editingEntryId])

\* a cancel that clears the editing reference without the form's effect
onCancelEdit_KeepsDraft ==
    /\ IsSome(editingEntry)
    /\ editingEntry' = None
    /\ sameRef' = FALSE
    /\ call' = None /\ applied' = None
    /\ UNCHANGED <<formVars, picked, logEntries, isLoading, error, envVars, agoVars>>

\* the Cancel button, rendered only while editing; the App passes
\* onCancelEdit = () => setEditingEntry(null)
onCancelEdit ==
    /\ IsSome(editingEntry)
    /\ SetEditingEntry(None, FALSE)
    /\ sameRef' = FALSE
    /\ call' = None /\ applied' = None
    /\ UNCHANGED <<logEntries, isLoading, error, envVars, agoVars>>

---------------------------------------------------------------------------
\* Inputs

TzOffsets == {0 - 300, 120}         \* UTC-05:00 and UTC+02:00

SampleInstants == {Instant(1, 10, 30, 25, 500), Instant(2, 23, 15, 0, 7)}

TextInputs == {Empty, <<Space>>, <<Space, "a", Space>>}
DateInputs == {Empty, <<3>>}
TimeInputs == {Empty, <<11, 45>>}

\* records as fetchLogEntries can hand them to the form: written by this
\* application or by anything else that writes to the collection
SampleEntries ==
    {LogEntry(1, Bathroom, a, p, None, None, None, Instant(1, 10, 30, 25, 500)) :
        a \in {None} \cup {Some(x) : x \in BathroomActivity},
        p \in {None, Some(Small), Some(Normal)}}
    \cup
    {LogEntry(1, Meal, None, None, m, f, n, Instant(1, 10, 30, 25, 500)) :
        m \in {None, Some(Stolen)},
        f \in {None, Some(Empty), Some(<<Space, "a">>)},
        n \in {None, Some(<<"a">>)}}
    \cup
    {LogEntry(1, Bathroom, Some(Pee), None, Some(Stolen), Some(<<"a">>), Some(<<"a">>), ts) :
        ts \in SampleInstants}
    \cup
    {LogEntry(1, Meal, Some(Both), Some(Huge), Some(Given), Some(Kibble), Some(Empty), ts) :
        ts \in SampleInstants}

---------------------------------------------------------------------------
\* The form on its own: the parent renders it with any editingEntry and
\* records the calls of onSaveEntry

\* a recording onSaveEntry
recordOnSaveEntry(entryData, idToUpdate) ==
    /\ applied' = None
    /\ UNCHANGED <<formVars, appVars, envVars, picked, sameRef, agoVars>>

\* the parent passes a new editingEntry object to the form
RenderWithEntry(x) ==
    /\ SetEditingEntry(Some(x), FALSE)
    /\ call' = None /\ applied' = None
    /\ UNCHANGED <<logEntries, isLoading, error, envVars, sameRef, agoVars>>

SubmitForm == handleSubmit /\ recordOnSaveEntry(currentFormData, editingEntryId)

InitForm ==
    /\ entryType = Bathroom
    /\ bathroomActivity = Pee
    /\ poopSubtype = Normal
    /\ mealNotes = Empty
    /\ editDate = Empty
    /\ editTime = Empty
    /\ mealSubtype = Given
    /\ foodType = Kibble
    /\ logEntries = << >>
    /\ editingEntry = None
    /\ isLoading = FALSE
    /\ error = None
    /\ store = << >>
    /\ pending = EmptyBag
    /\ clock = 0
    /\ tz \in TzOffsets
    /\ issued = 0
    /\ call = None
    /\ picked = FALSE
    /\ applied = None
    /\ sameRef = FALSE
    /\ seconds = 0
    /\ timeAgo = None

NextForm ==
    \/ \E x \in SampleEntries : RenderWithEntry(x)
    \/ onCancelEdit
    \/ \E t \in LogType : handleEntryTypeChange(t)
    \/ \E a \in BathroomActivity : handleBathroomActivityChange(a)
    \/ \E p \in PoopSubtype : setPoopSubtype(p)
    \/ \E m \in MealSubtype : setMealSubtype(m)
    \/ \E t \in TextInputs : setFoodType(t)
    \/ \E t \in TextInputs : setMealNotes(t)
    \/ \E d \in DateInputs : setEditDate(d)
    \/ \E t \in TimeInputs : setEditTime(t)
    \/ SubmitForm

SpecForm == InitForm /\ [][NextForm]_vars

---------------------------------------------------------------------------
\* The document store (Firestore collection 'log_entries')

\* FieldValue.serverTimestamp(): a sentinel the backend replaces by its clock
serverTimestamp == 0 - 2

\* a document, or the data of a write: type and optional fields
Doc(t, a, p, ms, f, n, ts) == LogEntryData(t, a, p, ms, f, n, ts)

OptionalFields == {"activity", "poopSubtype", "mealSubtype", "foodType", "notes", "timestamp"}

\* store[i] is Some(document) of id i, or None once it is deleted
Present(st) == {i \in 1..Len(st) : IsSome(st[i])}

\* the backend replaces the serverTimestamp sentinel when it applies a write
Resolve(d, now) ==
    IF d.timestamp = Some(serverTimestamp) THEN [d EXCEPT !.timestamp = Some(now)] ELSE d

\* addDoc: a new document under a fresh id
AddDoc(st, d, now) == Append(st, Some(Resolve(d, now)))

\* updateDoc: the fields named in the data are written, the others are kept
UpdateDoc(st, i, d, now) ==
    [st EXCEPT ![i] = Some(Resolve(
        [f \in DOMAIN d |->
            IF f \in OptionalFields /\ d[f] = None THEN Get(st[i])[f] ELSE d[f]], now))]

\* deleteDoc
DeleteDoc(st, i) == IF i \in Present(st) THEN [st EXCEPT ![i] = None] ELSE st

\* query(collection, orderBy('timestamp', 'desc')): the documents that have
\* the field, latest first, equal timestamps by id
RECURSIVE SortDesc(_, _)
SortDesc(st, ids) ==
    IF ids = {} THEN << >>
    ELSE LET first == CHOOSE i \in ids : \A j \in ids :
                        \/ Get(Get(st[i]).timestamp) > Get(Get(st[j]).timestamp)
                        \/ /\ Get(Get(st[i]).timestamp) = Get(Get(st[j]).timestamp)
                           /\ i >= j
         IN  <<[id |-> first, data |-> Get(st[first])]>> \o SortDesc(st, ids \ {first})

\* the query with the order reversed
GetDocs_Ascending(st) ==
    LET docs == SortDesc(st, {i \in Present(st) : IsSome(Get(st[i]).timestamp)})
    IN  [k \in 1..Len(docs) |-> docs[Len(docs) + 1 - k]]

GetDocs(st) == SortDesc(st, {i \in Present(st) : IsSome(Get(st[i]).timestamp)})

---------------------------------------------------------------------------
\* App

\* a call waiting for the backend, with what its continuation closes over:
\* entryData and idToUpdate (save), idToDelete and the editingEntry of the
\* render that created the handler (delete), the query snapshot (load)
Call(kind, i, entryData, d, snapshot, seenEditing) ==
    [op |-> kind, id |-> i, data |-> entryData, doc |-> d,
     snap |-> snapshot, seen |-> seenEditing]

LoadCall == Call("load", None, None, None, None, None)

\* the fetchLogEntries call that saveLogEntry makes after a successful write
ReloadCall == Call("reload", None, None, None, None, None)

\* a call of fetchLogEntries awaiting getDocs
IsLoad(c) == c.op \in {"load", "reload"}

InFlight == BagCardinality(pending)

\* fetchLogEntries, lines 54-66: docSnap -> LogEntry, read at instant now
ToLogEntry(docSnap, now) ==
    LogEntry(docSnap.id, docSnap.data.type, docSnap.data.activity,
             docSnap.data.poopSubtype, docSnap.data.mealSubtype,
             docSnap.data.foodType, docSnap.data.notes,
             IF IsSome(docSnap.data.timestamp) THEN Get(docSnap.data.timestamp) ELSE now)

\* saveLogEntry that sends the server timestamp with every write
DataToSave_AlwaysServerTimestamp(entryData, idToUpdate) ==
    [entryData EXCEPT !.timestamp =
        IF IsSome(entryData.timestamp) THEN entryData.timestamp
        ELSE Some(serverTimestamp)]

\* saveLogEntry, lines 107-128: dataToSave
DataToSave(entryData, idToUpdate) ==
    [entryData EXCEPT !.timestamp =
        IF IsSome(entryData.timestamp) THEN entryData.timestamp
        ELSE IF idToUpdate = None THEN Some(serverTimestamp)
        ELSE None]

\* saveLogEntry up to its await (lines 101-132)
saveLogEntry(entryData, idToUpdate) ==
    /\ InFlight < MaxInFlight /\ issued < MaxCalls
    /\ issued' = issued + 1
    /\ isLoading' = TRUE
    /\ error' = None
    /\ pending' = pending (+) SetToBag({
            Call(IF idToUpdate = None THEN "create" ELSE "update", idToUpdate,
                 Some(entryData), Some(DataToSave(entryData, idToUpdate)), None, None)})
    /\ applied' = None
    /\ UNCHANGED <<formVars, logEntries, editingEntry, store, clock, tz, picked, sameRef, agoVars>>

\* the submit button of the form as the App renders it
Submit == handleSubmit /\ saveLogEntry(currentFormData, editingEntryId)

\* a record saved through the form in an earlier session
SeedDoc ==
    Doc(Meal, None, None, Some(Given), Some(Kibble), Some(Empty),
        Some(Instant(1, 10, 30, 25, 500)))

\* the App mounts: useEffect calls fetchLogEntries
Init ==
    /\ entryType = Bathroom
    /\ bathroomActivity = Pee
    /\ poopSubtype = Normal
    /\ mealNotes = Empty
    /\ editDate = Empty
    /\ editTime = Empty
    /\ mealSubtype = Given
    /\ foodType = Kibble
    /\ logEntries = << >>
    /\ editingEntry = None
    /\ isLoading = TRUE
    /\ error = None
    /\ store = <<Some(SeedDoc)>>
    /\ pending = SetToBag({LoadCall})
    /\ clock = Instant(1, 11, 30, 25, 500)
    /\ tz = 120
    /\ issued = 0
    /\ call = None
    /\ picked = FALSE
    /\ applied = None
    /\ sameRef = FALSE
    /\ seconds = 0
    /\ timeAgo = None

\* the backend evaluates the query of a waiting getDocs
ServeLoad ==
    \E c \in BagToSet(pending) :
        /\ IsLoad(c) /\ c.snap = None
        /\ pending' = (pending (-) SetToBag({c}))
                        (+) SetToBag({[c EXCEPT !.snap = Some(GetDocs(store))]})
        /\ call' = None /\ applied' = None
        /\ UNCHANGED <<formVars, appVars, store, clock, tz, issued, picked, sameRef, agoVars>>

\* fetchLogEntries resumes with the query snapshot (lines 54-67, 73)
LoadSuccess ==
    \E c \in BagToSet(pending) :
        /\ IsLoad(c) /\ IsSome(c.snap)
        /\ pending' = pending (-) SetToBag({c})
        /\ logEntries' = [k \in 1..Len(Get(c.snap)) |-> ToLogEntry(Get(c.snap)[k], clock)]
        /\ isLoading' = FALSE
        /\ sameRef' = FALSE
        /\ call' = None /\ applied' = None
        /\ UNCHANGED <<formVars, editingEntry, error, store, clock, tz, issued, picked, agoVars>>

\* a fetchLogEntries without the finally block
LoadFail_StaysBusy ==
    \E c \in BagToSet(pending) :
        /\ IsLoad(c)
        /\ pending' = pending (-) SetToBag({c})
        /\ error' = Some("Failed to load activities")
        /\ logEntries' = << >>
        /\ sameRef' = FALSE
        /\ call' = None /\ applied' = None
        /\ UNCHANGED <<formVars, editingEntry, isLoading, store, clock, tz, issued, picked,
                       agoVars>>

\* a catch block of fetchLogEntries that keeps the list
LoadFail_KeepsList ==
    \E c \in BagToSet(pending) :
        /\ IsLoad(c)
        /\ pending' = pending (-) SetToBag({c})
        /\ error' = Some("Failed to load activities")
        /\ isLoading' = FALSE
        /\ call' = None /\ applied' = None
        /\ UNCHANGED <<formVars, logEntries, editingEntry, store, clock, tz, issued,
                       picked, sameRef, agoVars>>

\* getDocs rejects (lines 68-73)
LoadFail ==
    \E c \in BagToSet(pending) :
        /\ IsLoad(c)
        /\ pending' = pending (-) SetToBag({c})
        /\ error' = Some("Failed to load activities")
        /\ logEntries' = << >>
        /\ isLoading' = FALSE
        /\ sameRef' = FALSE
        /\ call' = None /\ applied' = None
        /\ UNCHANGED <<formVars, editingEntry, store, clock, tz, issued, picked, agoVars>>

\* the write of a waiting save as the backend applies it
ApplySave(c) ==
    IF c.op = "create"
    THEN AddDoc(store, Get(c.doc), clock)
    ELSE UpdateDoc(store, Get(c.id), Get(c.doc), clock)

\* a saveLogEntry that does not refresh the list
ReloadAfterSave_None == EmptyBag

\* saveLogEntry, line 135: fetchLogEntries() after the write
ReloadAfterSave == SetToBag({ReloadCall})

\* isLoading after a successful save: fetchLogEntries sets it (line 47)
\* before it awaits, then the finally of saveLogEntry clears it (line 140)
IsLoadingAfterSave == FALSE

\* addDoc/updateDoc resolves: saveLogEntry resumes (lines 134-135, 140)
\* and fetchLogEntries runs up to its await (lines 47-52)
SaveSuccess ==
    \E c \in BagToSet(pending) :
        /\ c.op \in {"create", "update"}
        /\ c.op = "update" => Get(c.id) \in Present(store)
        /\ store' = ApplySave(c)
        /\ applied' = Some([op |-> c.op,
                            id |-> IF c.op = "create" THEN Len(store) + 1 ELSE Get(c.id),
                            data |-> Get(c.data), doc |-> Get(c.doc),
                            before |-> IF c.op = "create" THEN None ELSE store[Get(c.id)]])
        /\ SetEditingEntry(None, editingEntry = None)
        /\ sameRef' = FALSE
        /\ error' = None
        /\ pending' = (pending (-) SetToBag({c})) (+) ReloadAfterSave
        /\ isLoading' = IsLoadingAfterSave
        /\ call' = None
        /\ clock' = clock + MsPerHour      \* time has passed
        /\ UNCHANGED <<logEntries, tz, issued, agoVars>>

\* a catch block of saveLogEntry that also leaves edit mode
SaveFail_LeavesEditMode ==
    \E c \in BagToSet(pending) :
        /\ c.op \in {"create", "update"}
        /\ pending' = pending (-) SetToBag({c})
        /\ error' = Some("Failed to save activity")
        /\ SetEditingEntry(None, editingEntry = None)
        /\ isLoading' = FALSE
        /\ call' = None /\ applied' = None
        /\ UNCHANGED <<logEntries, store, clock, tz, issued, sameRef, agoVars>>

\* addDoc/updateDoc rejects (lines 136-140)
SaveFail ==
    \E c \in BagToSet(pending) :
        /\ c.op \in {"create", "update"}
        /\ pending' = pending (-) SetToBag({c})
        /\ error' = Some("Failed to save activity")
        /\ isLoading' = FALSE
        /\ call' = None /\ applied' = None
        /\ UNCHANGED <<formVars, logEntries, editingEntry, store, clock, tz, issued, picked, sameRef, agoVars>>

\* an Edit button that moves the entry out of the list into the form
handleSetEditingEntry_TakesFromList(k) ==
    /\ k \in 1..Len(logEntries)
    /\ SetEditingEntry(Some(logEntries[k]),
                       sameRef /\ IsSome(editingEntry)
                               /\ Get(editingEntry).id = logEntries[k].id)
    /\ sameRef' = TRUE
    /\ logEntries' = [j \in 1..(Len(logEntries) - 1) |->
                         IF j < k THEN logEntries[j] ELSE logEntries[j + 1]]
    /\ call' = None /\ applied' = None
    /\ UNCHANGED <<isLoading, error, envVars, agoVars>>

\* the Edit button of list entry k: handleSetEditingEntry(entry)
handleSetEditingEntry(k) ==
    /\ k \in 1..Len(logEntries)
    /\ SetEditingEntry(Some(logEntries[k]),
                       sameRef /\ IsSome(editingEntry)
                               /\ Get(editingEntry).id = logEntries[k].id)
    /\ sameRef' = TRUE
    /\ call' = None /\ applied' = None
    /\ UNCHANGED <<logEntries, isLoading, error, envVars, agoVars>>

\* the Delete button of list entry k: handleDeleteEntry up to its await
handleDeleteEntry(k) ==
    /\ k \in 1..Len(logEntries)
    /\ InFlight < MaxInFlight /\ issued < MaxCalls
    /\ issued' = issued + 1
    /\ isLoading' = TRUE
    /\ error' = None
    /\ pending' = pending (+) SetToBag({
            Call("delete", Some(logEntries[k].id), None, None, None,
                 IF IsSome(editingEntry) THEN Some(Get(editingEntry).id) ELSE None)})
    /\ call' = None /\ applied' = None
    /\ UNCHANGED <<formVars, logEntries, editingEntry, store, clock, tz, picked, sameRef, agoVars>>

\* a patch that empties the list
WithoutEntry_ClearsList(entries, idToDelete) == << >>

\* handleDeleteEntry, line 174: prevEntries.filter(entry => entry.id !== idToDelete)
WithoutEntry(entries, idToDelete) ==
    SelectSeq(entries, LAMBDA entry : entry.id # idToDelete)

\* handleDeleteEntry, line 175, read through the closure of the handler
DeletedIsBeingEdited(c) == c.seen = c.id

\* deleteDoc resolves: handleDeleteEntry resumes (lines 174-177, 182)
DeleteSuccess ==
    \E c \in BagToSet(pending) :
        /\ c.op = "delete"
        /\ store' = DeleteDoc(store, Get(c.id))
        /\ applied' = Some([op |-> c.op, id |-> Get(c.id), data |-> None, doc |-> None,
                            before |-> None])
        /\ pending' = pending (-) SetToBag({c})
        /\ logEntries' = WithoutEntry(logEntries, Get(c.id))
        /\ IF DeletedIsBeingEdited(c)
           THEN SetEditingEntry(None, editingEntry = None)
           ELSE UNCHANGED <<editingEntry, formVars, picked>>
        /\ isLoading' = FALSE
        /\ call' = None
        /\ UNCHANGED <<error, clock, tz, issued, sameRef, agoVars>>

\* a catch block of handleDeleteEntry that removes the entry all the same
DeleteFail_RemovesEntry ==
    \E c \in BagToSet(pending) :
        /\ c.op = "delete"
        /\ pending' = pending (-) SetToBag({c})
        /\ error' = Some("Failed to delete activity")
        /\ logEntries' = WithoutEntry(logEntries, Get(c.id))
        /\ isLoading' = FALSE
        /\ call' = None /\ applied' = None
        /\ UNCHANGED <<formVars, editingEntry, store, clock, tz, issued, picked, sameRef, agoVars>>

\* deleteDoc rejects (lines 178-182)
DeleteFail ==
    \E c \in BagToSet(pending) :
        /\ c.op = "delete"
        /\ pending' = pending (-) SetToBag({c})
        /\ error' = Some("Failed to delete activity")
        /\ isLoading' = FALSE
        /\ call' = None /\ applied' = None
        /\ UNCHANGED <<formVars, logEntries, editingEntry, store, clock, tz, issued, picked, sameRef, agoVars>>

\* the close button of the error banner
dismissError ==
    /\ IsSome(error)
    /\ error' = None
    /\ call' = None /\ applied' = None
    /\ UNCHANGED <<formVars, logEntries, editingEntry, isLoading, envVars, picked, sameRef, agoVars>>

\* what the user enters into the form of the App
AppPoopInputs == {Huge}

Next ==
    \/ ServeLoad \/ LoadSuccess \/ LoadFail
    \/ SaveSuccess \/ SaveFail
    \/ DeleteSuccess \/ DeleteFail
    \/ \E k \in 1..(MaxCalls + 1) : handleSetEditingEntry(k)
    \/ \E k \in 1..(MaxCalls + 1) : handleDeleteEntry(k)
    \/ onCancelEdit
    \/ dismissError
    \/ \E t \in LogType : handleEntryTypeChange(t)
    \/ \E a \in BathroomActivity : handleBathroomActivityChange(a)
    \/ \E p \in AppPoopInputs : setPoopSubtype(p)
    \/ Submit

Spec == Init /\ [][Next]_vars

---------------------------------------------------------------------------
\* The coordinator on its own: saveLogEntry called with any LogEntryData

SamplePayloads ==
    {LogEntryData(Bathroom, Some(Pee), None, None, None, None, ts) :
        ts \in {None, Some(Instant(3, 11, 45, 25, 500))}}
    \cup
    {LogEntryData(Meal, None, None, Some(Stolen), Some(<<"a">>), Some(Empty), ts) :
        ts \in {None, Some(Instant(3, 11, 45, 25, 500))}}

CallSave(entryData, idToUpdate) ==
    /\ call' = Some([data |-> entryData, id |-> idToUpdate])
    /\ saveLogEntry(entryData, idToUpdate)

NextCoord ==
    \/ ServeLoad \/ LoadSuccess \/ LoadFail
    \/ SaveSuccess \/ SaveFail
    \/ \E d \in SamplePayloads :
         \E i \in {None} \cup {Some(k) : k \in 1..Len(store)} : CallSave(d, i)

SpecCoord == Init /\ [][NextCoord]_vars

---------------------------------------------------------------------------
\* The coordinator over a collection that other writers have written to:
\* loads, saves and deletes, one document having no timestamp field

\* a document without a timestamp field
LegacyDoc == Doc(Bathroom, None, None, None, None, None, None)

\* a document later than SeedDoc
LaterDoc ==
    Doc(Bathroom, Some(Poop), Some(Small), None, None, None,
        Some(Instant(2, 23, 15, 0, 7)))

InitList ==
    /\ entryType = Bathroom
    /\ bathroomActivity = Pee
    /\ poopSubtype = Normal
    /\ mealNotes = Empty
    /\ editDate = Empty
    /\ editTime = Empty
    /\ mealSubtype = Given
    /\ foodType = Kibble
    /\ logEntries = << >>
    /\ editingEntry = None
    /\ isLoading = TRUE
    /\ error = None
    /\ store = <<Some(SeedDoc), Some(LegacyDoc), Some(LaterDoc)>>
    /\ pending = SetToBag({LoadCall})
    /\ clock = Instant(3, 9, 0, 0, 0)
    /\ tz = 120
    /\ issued = 0
    /\ call = None
    /\ picked = FALSE
    /\ applied = None
    /\ sameRef = FALSE
    /\ seconds = 0
    /\ timeAgo = None

NextList ==
    \/ ServeLoad \/ LoadSuccess \/ LoadFail
    \/ SaveSuccess \/ SaveFail
    \/ DeleteSuccess \/ DeleteFail
    \/ \E k \in 1..(MaxCalls + 1) : handleDeleteEntry(k)
    \/ \E d \in SamplePayloads :
         \E i \in {None} \cup {Some(k) : k \in 1..Len(store)} : CallSave(d, i)

SpecList == InitList /\ [][NextList]_vars

---------------------------------------------------------------------------
\* The list presenter (LogItem.tsx, LogList.tsx) and the App's render.
\* Displayed text is a sequence of characters, as foodType and notes are.

\* String.prototype.toLowerCase on the letters of the PoopSubtype values
toLowerCase(s) ==
    [k \in DOMAIN s |->
        CASE s[k] = "A" -> "a" [] s[k] = "C" -> "c" [] s[k] = "E" -> "e"
          [] s[k] = "G" -> "g" [] s[k] = "H" -> "h" [] s[k] = "I" -> "i"
          [] s[k] = "K" -> "k" [] s[k] = "L" -> "l" [] s[k] = "M" -> "m"
          [] s[k] = "N" -> "n" [] s[k] = "O" -> "o" [] s[k] = "R" -> "r"
          [] s[k] = "S" -> "s" [] s[k] = "U" -> "u"
          [] OTHER -> s[k]]

\* the characters of a PoopSubtype value (types.ts)
Chars(p) ==
    CASE p = Small  -> <<"S", "M", "A", "L", "L">>
      [] p = Normal -> <<"N", "O", "R", "M", "A", "L">>
      [] p = Huge   -> <<"H", "U", "G", "E">>
      [] p = Sick   -> <<"S", "I", "C", "K">>

\* poopSubtype.charAt(0) + poopSubtype.slice(1).toLowerCase()
Capitalized(p) == <<Head(Chars(p))>> \o toLowerCase(Tail(Chars(p)))

\* JavaScript truthiness of an optional string: defined and non-empty
Truthy(o) == IsSome(o) /\ Get(o) # Empty

\* ActivityTitle whose Both branch shows the suffix of the Poop branch
ActivityTitle_BothAsPoop(entry) ==
    IF entry.type = Meal
    THEN <<"M", "e", "a", "l">> \o
         (IF IsSome(entry.mealSubtype)
          THEN <<" ", "(">> \o
               (IF Get(entry.mealSubtype) = Given
                THEN <<"G", "i", "v", "e", "n">>
                ELSE <<"S", "t", "o", "l", "e", "n">>) \o
               (IF Truthy(entry.foodType)
                THEN <<":", " ">> \o Get(entry.foodType) ELSE << >>) \o
               <<")">>
          ELSE IF Truthy(entry.foodType)
               THEN <<" ", "(">> \o Get(entry.foodType) \o <<")">>
               ELSE << >>)
    ELSE IF entry.type = Bathroom
    THEN IF entry.activity = Some(Pee)
         THEN <<"P", "e", "e", " ", "B", "r", "e", "a", "k">>
         ELSE IF entry.activity = Some(Poop)
         THEN <<"P", "o", "o", "p", " ", "B", "r", "e", "a", "k">> \o
              (IF IsSome(entry.poopSubtype)
               THEN <<" ", "(">> \o Capitalized(Get(entry.poopSubtype)) \o <<")">>
               ELSE << >>)
         ELSE IF entry.activity = Some(Both)
         THEN <<"P", "e", "e", " ", "&", " ", "P", "o", "o", "p", " ",
                "B", "r", "e", "a", "k">> \o
              (IF IsSome(entry.poopSubtype)
               THEN <<" ", "(">> \o Capitalized(Get(entry.poopSubtype)) \o <<")">>
               ELSE << >>)
         ELSE <<"B", "a", "t", "h", "r", "o", "o", "m", " ",
                "B", "r", "e", "a", "k">>
    ELSE None

\* ActivityTitle (LogItem.tsx, lines 24-63): the text of the title
ActivityTitle(entry) ==
    IF entry.type = Meal
    THEN <<"M", "e", "a", "l">> \o
         (IF IsSome(entry.mealSubtype)
          THEN <<" ", "(">> \o
               (IF Get(entry.mealSubtype) = Given
                THEN <<"G", "i", "v", "e", "n">>
                ELSE <<"S", "t", "o", "l", "e", "n">>) \o
               (IF Truthy(entry.foodType)
                THEN <<":", " ">> \o Get(entry.foodType) ELSE << >>) \o
               <<")">>
          ELSE IF Truthy(entry.foodType)
               THEN <<" ", "(">> \o Get(entry.foodType) \o <<")">>
               ELSE << >>)
    ELSE IF entry.type = Bathroom
    THEN IF entry.activity = Some(Pee)
         THEN <<"P", "e", "e", " ", "B", "r", "e", "a", "k">>
         ELSE IF entry.activity = Some(Poop)
         THEN <<"P", "o", "o", "p", " ", "B", "r", "e", "a", "k">> \o
              (IF IsSome(entry.poopSubtype)
               THEN <<" ", "(">> \o Capitalized(Get(entry.poopSubtype)) \o <<")">>
               ELSE << >>)
         ELSE IF entry.activity = Some(Both)
         THEN <<"P", "e", "e", " ", "&", " ", "P", "o", "o", "p", " ",
                "B", "r", "e", "a", "k">> \o
              (IF IsSome(entry.poopSubtype)
               THEN <<" ", "(", "P", "o", "o", "p", ":", " ">> \o
                    Capitalized(Get(entry.poopSubtype)) \o <<")">>
               ELSE << >>)
         ELSE <<"B", "a", "t", "h", "r", "o", "o", "m", " ",
                "B", "r", "e", "a", "k">>
    ELSE None

\* a notes line shown for every record that has notes
NotesLine_AnyType(entry) ==
    IF Truthy(entry.notes)
    THEN Some(<<"N", "o", "t", "e", "s", ":", " ">> \o Get(entry.notes))
    ELSE None

\* LogItem, lines 100-102: the notes line, None when it is not rendered
NotesLine(entry) ==
    IF entry.type = Meal /\ Truthy(entry.notes)
    THEN Some(<<"N", "o", "t", "e", "s", ":", " ">> \o Get(entry.notes))
    ELSE None

\* LogItem, lines 103-105: whether 'General bathroom break.' is rendered
GeneralBathroomLine(entry) == entry.type = Bathroom /\ ~ IsSome(entry.activity)

\* LogItem: what one item of the list displays
LogItem(entry) ==
    [title |-> ActivityTitle(entry),
     notes |-> NotesLine(entry),
     general |-> GeneralBathroomLine(entry)]

\* LogList (part_003, lines 370-399): the message 'No activities logged
\* yet.' or the items
LogList(entries, listLoading) ==
    IF ~ listLoading /\ Len(entries) = 0
    THEN [message |-> TRUE, items |-> << >>]
    ELSE [message |-> FALSE, items |-> [k \in DOMAIN entries |-> LogItem(entries[k])]]

\* App render (part_004, lines 247-286): the spinner
SpinnerShown == isLoading /\ Len(logEntries) = 0

\* App render: LogList is mounted
ListMounted == ~ isLoading \/ Len(logEntries) > 0

\* App render: the isLoading prop handed to LogList
ListLoadingProp == isLoading /\ Len(logEntries) > 0

\* App, line 186
sortedEntries == logEntries

\* what the mounted LogList displays
ListView == LogList(sortedEntries, ListLoadingProp)

\* documents of the collection, written by this application or by others
SampleDocs ==
    {Doc(e.type, e.activity, e.poopSubtype, e.mealSubtype, e.foodType, e.notes,
         Some(e.timestamp)) : e \in SampleEntries}
    \cup
    {Doc(t, a, Some(p), Some(Given), Some(Kibble), Some(<<"a">>),
         Some(Instant(1, 10, 30, 25, 500))) :
        t \in LogType,
        a \in {None} \cup {Some(x) : x \in BathroomActivity},
        p \in PoopSubtype}

\* the App mounts over a collection holding any one of the documents, or none
InitView ==
    /\ entryType = Bathroom
    /\ bathroomActivity = Pee
    /\ poopSubtype = Normal
    /\ mealNotes = Empty
    /\ editDate = Empty
    /\ editTime = Empty
    /\ mealSubtype = Given
    /\ foodType = Kibble
    /\ logEntries = << >>
    /\ editingEntry = None
    /\ isLoading = TRUE
    /\ error = None
    /\ store \in {<< >>} \cup {<<Some(d)>> : d \in SampleDocs}
    /\ pending = SetToBag({LoadCall})
    /\ clock = Instant(3, 9, 0, 0, 0)
    /\ tz = 120
    /\ issued = 0
    /\ call = None
    /\ picked = FALSE
    /\ applied = None
    /\ sameRef = FALSE
    /\ seconds = 0
    /\ timeAgo = None

NextView ==
    \/ ServeLoad \/ LoadSuccess \/ LoadFail
    \/ DeleteSuccess \/ DeleteFail
    \/ \E k \in 1..MaxCalls : handleSetEditingEntry(k)
    \/ \E k \in 1..MaxCalls : handleDeleteEntry(k)

SpecView == InitView /\ [][NextView]_vars

\* the divisors of formatTimeAgo (part_004, lines 199-207)
SecondsPerYear   == 31536000
SecondsPerMonth  == 2592000
SecondsPerDay    == 86400
SecondsPerHour   == 3600
SecondsPerMinute == 60
JustNowLimit     == 10

\* line 198: Math.floor((new Date().getTime() - date.getTime()) / 1000)
ElapsedSeconds(date, now) == (now - date) \div MsPerSecond

\* formatTimeAgo, lines 199-210, from the whole seconds of line 198 on.
\* interval = secs / unit is a real number, so interval > 1 is secs > unit,
\* and Math.floor(interval) is secs \div unit.  The text returned is the
\* number followed by the literal.
TimeAgoText(secs) ==
    IF secs > 1 * SecondsPerYear THEN <<secs \div SecondsPerYear, " years ago">>
    ELSE IF secs > 1 * SecondsPerMonth THEN <<secs \div SecondsPerMonth, " months ago">>
    ELSE IF secs > 1 * SecondsPerDay THEN <<secs \div SecondsPerDay, " days ago">>
    ELSE IF secs > 1 * SecondsPerHour THEN <<secs \div SecondsPerHour, " hours ago">>
    ELSE IF secs > 1 * SecondsPerMinute THEN <<secs \div SecondsPerMinute, " minutes ago">>
    ELSE IF secs < JustNowLimit THEN <<"just now">>
    ELSE <<secs, " seconds ago">>

\* formatTimeAgo(date) called at instant now
formatTimeAgo(date, now) == TimeAgoText(ElapsedSeconds(date, now))

\* formatTimeAgo returns
ReturnTimeAgo ==
    /\ timeAgo = None
    /\ timeAgo' = Some(TimeAgoText(seconds))
    /\ UNCHANGED <<formVars, appVars, envVars, obsVars, seconds>>

\* the summary is rendered again, later or for another record
CallFormatTimeAgo(secs) ==
    /\ IsSome(timeAgo)
    /\ seconds' = secs
    /\ timeAgo' = None
    /\ UNCHANGED <<formVars, appVars, envVars, obsVars>>

\* ages around every threshold of the function, and dates in the future
AgeInputs ==
    ((0 - 2)..(SecondsPerMinute + 2))
    \cup {k * u + d :
            u \in {SecondsPerMinute, SecondsPerHour, SecondsPerDay,
                   SecondsPerMonth, SecondsPerYear},
            k \in 1..3, d \in {0 - 1, 0, 1}}
    \cup {12 * SecondsPerMonth, 24 * SecondsPerHour + 1, 365 * SecondsPerDay + 1}

\* formatTimeAgo is called with a date that lies any of the ages back
InitAgo ==
    /\ entryType = Bathroom
    /\ bathroomActivity = Pee
    /\ poopSubtype = Normal
    /\ mealNotes = Empty
    /\ editDate = Empty
    /\ editTime = Empty
    /\ mealSubtype = Given
    /\ foodType = Kibble
    /\ logEntries = << >>
    /\ editingEntry = None
    /\ isLoading = FALSE
    /\ error = None
    /\ store = << >>
    /\ pending = EmptyBag
    /\ clock = Instant(3, 9, 0, 0, 0)
    /\ tz = 120
    /\ issued = 0
    /\ call = None
    /\ picked = FALSE
    /\ applied = None
    /\ sameRef = FALSE
    /\ seconds \in AgeInputs
    /\ timeAgo = None

NextAgo ==
    \/ ReturnTimeAgo
    \/ \E secs \in AgeInputs : CallFormatTimeAgo(secs)

SpecAgo == InitAgo /\ [][NextAgo]_vars

---------------------------------------------------------------------------
\* The App with every event of the form: each control of the form takes one
\* value other than its default

NextFrame ==
    \/ ServeLoad \/ LoadSuccess \/ LoadFail
    \/ SaveSuccess \/ SaveFail
    \/ DeleteSuccess \/ DeleteFail
    \/ handleSetEditingEntry(1)
    \/ handleDeleteEntry(1)
    \/ onCancelEdit
    \/ handleEntryTypeChange(Meal)
    \/ handleBathroomActivityChange(Poop)
    \/ setPoopSubtype(Huge)
    \/ setMealSubtype(Stolen)
    \/ setFoodType(<<Space, "a", Space>>)
    \/ setMealNotes(<<Space>>)
    \/ setEditDate(<<3>>)
    \/ setEditTime(<<11, 45>>)
    \/ Submit

SpecFrame == Init /\ [][NextFrame]_vars

---------------------------------------------------------------------------
\* The coordinator over a backend that answers every call

\* the backend answers a call in flight (a Promise of getDocs, addDoc,
\* updateDoc or deleteDoc settles and the awaiting handler resumes)
BackendResponds ==
    \/ ServeLoad \/ LoadSuccess \/ LoadFail
    \/ SaveSuccess \/ SaveFail
    \/ DeleteSuccess \/ DeleteFail

SpecLive == InitList /\ [][NextList]_vars /\ WF_vars(BackendResponds)

---------------------------------------------------------------------------
\* Properties of the form

\* the entryData of the onSaveEntry call of the last step
Payload == Get(call).data

C3_TimestampIffEditingWithDateAndTime ==
    IsSome(call) =>
        /\ IsSome(Payload.timestamp) <=>
              (IsSome(editingEntry) /\ editDate # Empty /\ editTime # Empty)
        /\ Get(call).id = None => Payload.timestamp = None

\* an edit submitted after the user set the date field
C3_Witness ==
    /\ IsSome(call) /\ IsSome(editingEntry)
    /\ editDate = <<3>>
    /\ IsSome(Payload.timestamp)

\* C4: the payload timestamp of an edit reads, in the local timezone, as
\* the edited date, the edited hours and minutes, and the seconds and
\* milliseconds of the original timestamp.
C4_TimestampIsEditedLocalDateTime ==
    (IsSome(call) /\ IsSome(Payload.timestamp)) =>
        Local(Get(Payload.timestamp), tz) =
            Instant(editDate[1], editTime[1], editTime[2],
                    getSeconds(Get(editingEntry).timestamp, tz),
                    getMilliseconds(Get(editingEntry).timestamp, tz))

\* C5: a record loaded for edit and submitted unchanged yields a payload
\* with the record's own type-relevant fields.
C5_LoadThenSubmitReproducesEntry ==
    (IsSome(call) /\ IsSome(editingEntry) /\ Draft = DraftFor(editingEntry, tz)) =>
        LET x == Get(editingEntry) IN
        /\ Payload.type = x.type
        /\ x.type = Bathroom =>
              /\ Payload.activity = x.activity
              /\ Payload.poopSubtype = x.poopSubtype
        /\ x.type = Meal =>
              /\ Payload.mealSubtype = x.mealSubtype
              /\ Payload.foodType = x.foodType
              /\ Payload.notes = x.notes

\* C18: switching the type to Bathroom sets notes to empty, mealSubtype to
\* Given, foodType to 'Kibble' and poopSubtype to Normal; switching it to
\* Meal sets bathroomActivity to Pee and poopSubtype to Normal.  A switch
\* back to Meal finds the meal fields at their defaults and a switch back to
\* Bathroom finds the activity Pee.
C18_TypeChangeResets ==
    [][/\ handleEntryTypeChange(Bathroom) =>
            /\ entryType' = Bathroom
            /\ mealNotes' = Empty /\ mealSubtype' = Given /\ foodType' = Kibble
            /\ poopSubtype' = Normal
            /\ bathroomActivity' = Pee
       /\ handleEntryTypeChange(Meal) =>
            /\ entryType' = Meal
            /\ bathroomActivity' = Pee /\ poopSubtype' = Normal
            /\ mealNotes' = Empty /\ mealSubtype' = Given /\ foodType' = Kibble]_vars

\* a Bathroom entry with activity Both is being edited and the user has
\* switched the type to Meal
C18_Witness ==
    /\ IsSome(editingEntry)
    /\ Get(editingEntry).type = Bathroom
    /\ Get(editingEntry).activity = Some(Both)
    /\ entryType = Meal
    /\ bathroomActivity = Pee /\ poopSubtype = Normal

\* C19: selecting Pee sets poopSubtype to Normal; selecting Poop or Both
\* leaves the selected poopSubtype unchanged; no other draft field changes.
C19_ActivityChangeKeepsSubtype ==
    [][\A a \in BathroomActivity :
          handleBathroomActivityChange(a) =>
              /\ bathroomActivity' = a
              /\ a = Pee => poopSubtype' = Normal
              /\ a \in {Poop, Both} => poopSubtype' = poopSubtype
              /\ UNCHANGED <<entryType, mealNotes, editDate, editTime,
                             mealSubtype, foodType>>]_vars

\* a Poop entry of subtype Small is being edited and the user has switched
\* the activity to Both: the subtype is still Small
C19_Witness ==
    /\ IsSome(editingEntry)
    /\ Get(editingEntry).activity = Some(Poop)
    /\ Get(editingEntry).poopSubtype = Some(Small)
    /\ bathroomActivity = Both
    /\ poopSubtype = Small
    /\ ~picked

\* the value of an optional field, or d when the field is undefined
ValueOr(o, d) == IF o = None THEN d ELSE Get(o)

\* the draft of an initialization with entry e (None: no entry); blank is
\* the food type shown for a Meal entry whose food type is the empty string
InitialDraft(e, z, blank) ==
    IF e = None
    THEN [entryType |-> Bathroom, bathroomActivity |-> Pee, poopSubtype |-> Normal,
          mealSubtype |-> Given, foodType |-> Kibble, mealNotes |-> Empty,
          editDate |-> Empty, editTime |-> Empty]
    ELSE [entryType |-> Get(e).type,
          bathroomActivity |->
              IF Get(e).type = Bathroom THEN ValueOr(Get(e).activity, Pee) ELSE Pee,
          poopSubtype |->
              IF Get(e).type = Bathroom THEN ValueOr(Get(e).poopSubtype, Normal) ELSE Normal,
          mealSubtype |->
              IF Get(e).type = Meal THEN ValueOr(Get(e).mealSubtype, Given) ELSE Given,
          foodType |->
              IF Get(e).type # Meal THEN Kibble
              ELSE IF Get(e).foodType = Some(Empty) THEN blank
              ELSE ValueOr(Get(e).foodType, Kibble),
          mealNotes |->
              IF Get(e).type = Meal THEN ValueOr(Get(e).notes, Empty) ELSE Empty,
          editDate |-> formatDateForInput(Get(e).timestamp),
          editTime |-> formatTimeForInput(Get(e).timestamp, z)]

\* C20 as stated: when the form is given another entry (or none), the draft
\* is a function of that entry alone: the entry's type, the fields of that
\* type with the defaults substituted for undefined ones, the other type's
\* fields at their defaults, date and time from the entry's timestamp; with
\* no entry, every field at its default and date and time empty.
C20_InitIsFunctionOfEntry ==
    [][editingEntry' # editingEntry =>
          Draft' = InitialDraft(editingEntry', tz, Empty)]_vars

\* C20 amended: as stated, and the food type of a Meal entry is 'Kibble'
\* also when the entry's food type is the empty string.
C20_InitSubstitutesDefaults ==
    [][editingEntry' # editingEntry =>
          Draft' = InitialDraft(editingEntry', tz, Kibble)]_vars

\* a Meal entry with an empty food type has been loaded over a draft: the
\* form shows 'Kibble' and the bathroom fields are at their defaults
C20_Witness ==
    /\ IsSome(editingEntry)
    /\ Get(editingEntry).type = Meal
    /\ Get(editingEntry).foodType = Some(Empty)
    /\ Get(editingEntry).notes = Some(<<"a">>)
    /\ foodType = Kibble /\ mealNotes = <<"a">>
    /\ bathroomActivity = Pee /\ poopSubtype = Normal
    /\ editDate # Empty

\* C22: exactly one field group is visible: the Bathroom group iff the type
\* is Bathroom, the Meal group iff the type is Meal; the poop-subtype
\* selector is visible iff the type is Bathroom and the activity is Poop or
\* Both.
C22_OneFieldGroupVisible ==
    /\ BathroomGroupVisible <=> entryType = Bathroom
    /\ MealGroupVisible <=> entryType = Meal
    /\ BathroomGroupVisible # MealGroupVisible
    /\ PoopSelectorVisible <=>
          (entryType = Bathroom /\ bathroomActivity \in {Poop, Both})

\* a Bathroom record of activity Both is loaded: the Bathroom group and the
\* poop-subtype selector are shown, the Meal group is not
C22_Witness ==
    /\ IsSome(editingEntry)
    /\ Get(editingEntry).activity = Some(Both)
    /\ Draft = DraftFor(editingEntry, tz)
    /\ BathroomGroupVisible /\ PoopSelectorVisible /\ ~MealGroupVisible

\* text s consists of whitespace only (or is empty)
Blank(s) == \A i \in 1..Len(s) : s[i] = Space

\* t is the text s without its leading and trailing whitespace
IsTrimOf(t, s) ==
    /\ t = Empty \/ (t[1] # Space /\ t[Len(t)] # Space)
    /\ \E i \in 0..Len(s) : \E j \in 0..Len(s) :
          /\ i + Len(t) + j = Len(s)
          /\ Blank(SubSeq(s, 1, i))
          /\ SubSeq(s, i + 1, i + Len(t)) = t
          /\ Blank(SubSeq(s, i + Len(t) + 1, Len(s)))

\* C23: a Meal payload's foodType is the trimmed food-type text, or 'Kibble'
\* when that text is empty or whitespace only, and is never empty; its notes
\* is the trimmed notes text, present even when empty; its mealSubtype is
\* the current selection.
C23_MealPayloadNormalised ==
    (IsSome(call) /\ Payload.type = Meal) =>
        /\ IsSome(Payload.foodType)
        /\ Get(Payload.foodType) # Empty
        /\ IF Blank(foodType)
           THEN Payload.foodType = Some(Kibble)
           ELSE IsTrimOf(Get(Payload.foodType), foodType)
        /\ IsSome(Payload.notes)
        /\ IsTrimOf(Get(Payload.notes), mealNotes)
        /\ Payload.mealSubtype = Some(mealSubtype)

\* a Meal entry submitted with a whitespace-only food type and padded notes
C23_Witness ==
    /\ IsSome(call) /\ Payload.type = Meal
    /\ foodType = <<Space>>
    /\ mealNotes = <<Space, "a", Space>>
    /\ Payload.foodType = Some(Kibble)
    /\ Payload.notes = Some(<<"a">>)

\* C24: in every reachable form state a submit goes through: it calls the
\* save operation with the payload and the id of the entry being edited; no
\* draft state blocks it.
C24_SubmitNeverBlocked ==
    ENABLED SubmitForm

\* C25: when an entry is loaded for edit, the date string is the calendar
\* date and the time string the hours and minutes of the entry's timestamp,
\* both read in the local timezone.
C25_DateAndTimeInLocalZone ==
    (IsSome(editingEntry) /\ Draft = DraftFor(editingEntry, tz)) =>
        /\ editDate = <<Local(Get(editingEntry).timestamp, tz) \div MsPerDay>>
        /\ editTime = <<(Local(Get(editingEntry).timestamp, tz) % MsPerDay) \div MsPerHour,
                        (Local(Get(editingEntry).timestamp, tz) % MsPerHour) \div MsPerMinute>>

---------------------------------------------------------------------------
\* Properties of the coordinator

\* the backend write applied by the last step
Applied == Get(applied)

IsInstant(o) == IsSome(o) /\ Get(o) >= 0

\* C6: the document sent to create always has a timestamp, the payload's
\* or else the server's; the document sent to update has one exactly when
\* the payload has, and an update without one leaves the stored timestamp
\* of the record as it was.
C6_TimestampOfSavedDocument ==
    /\ \A c \in BagToSet(pending) :
          /\ c.op = "create" =>
                Get(c.doc).timestamp =
                    IF IsSome(Get(c.data).timestamp) THEN Get(c.data).timestamp
                    ELSE Some(serverTimestamp)
          /\ c.op = "update" =>
                (IsSome(Get(c.doc).timestamp) <=> IsSome(Get(c.data).timestamp))
    /\ (IsSome(applied) /\ Applied.op = "create") =>
          IsInstant(Get(store[Applied.id]).timestamp)
    /\ (IsSome(applied) /\ Applied.op = "update") =>
          Get(store[Applied.id]).timestamp =
              IF IsSome(Applied.data.timestamp) THEN Applied.data.timestamp
              ELSE Get(Applied.before).timestamp

\* an update whose payload has no timestamp was applied to a stored record
C6_Witness ==
    /\ IsSome(applied) /\ Applied.op = "update"
    /\ Applied.data.timestamp = None
    /\ Applied.data.type # Get(Applied.before).type
    /\ IsInstant(Get(store[Applied.id]).timestamp)

\* C7: after a successful update the stored record consists of exactly the
\* fields of the payload, with the previously stored timestamp when the
\* payload carries none.
C7_UpdateReplacesRecord ==
    (IsSome(applied) /\ Applied.op = "update") =>
        Get(store[Applied.id]) =
            [Applied.data EXCEPT !.timestamp =
                IF IsSome(Applied.data.timestamp) THEN Applied.data.timestamp
                ELSE Get(Applied.before).timestamp]

\* the data-model rules of a record
WellFormed(d) ==
    /\ IsSome(d.activity) => d.type = Bathroom
    /\ IsSome(d.poopSubtype) => d.type = Bathroom /\ d.activity \in {Some(Poop), Some(Both)}
    /\ IsSome(d.mealSubtype) => d.type = Meal
    /\ IsSome(d.foodType) => d.type = Meal

\* C8: every stored record satisfies the data-model rules: activity and
\* poopSubtype only under type Bathroom, poopSubtype only under activity
\* Poop or Both, mealSubtype and foodType only under type Meal.
C8_StoredRecordsWellFormed ==
    \A i \in Present(store) : WellFormed(Get(store[i]))

\* C9: when a delete of id X has completed successfully, the entry being
\* edited is not the entry of id X.
C9_DeleteClearsEditingReference ==
    (IsSome(applied) /\ Applied.op = "delete") =>
        ~(IsSome(editingEntry) /\ Get(editingEntry).id = Applied.id)

\* C10: isLoading is true whenever a load, save or delete call is waiting
\* for the backend.
C10_BusyWhileInFlight ==
    InFlight > 0 => isLoading

---------------------------------------------------------------------------
\* Properties of the coordinator: loads, failures and the list

\* the list a load at instant now makes of the store st
Listing(st, now) ==
    [k \in 1..Len(GetDocs(st)) |-> ToLogEntry(GetDocs(st)[k], now)]

\* C11: when the reload that follows a successful save succeeds and leaves
\* no call in flight, the in-memory list holds exactly the stored records.
C11_ReadAfterWrite ==
    [][(/\ LoadSuccess
        /\ \E c \in BagToSet(pending) : c.op = "reload" /\ IsSome(c.snap)
        /\ pending' = EmptyBag)
       => logEntries' = Listing(store', clock')]_vars

\* call c got its response in this step
Answered(c) == CopiesIn(c, pending') < CopiesIn(c, pending)

\* the number of fetchLogEntries calls in flight in the bag of calls B
LoadsInFlight(B) ==
    BagCardinality([c \in {d \in BagToSet(B) : IsLoad(d)} |-> CopiesIn(c, B)])

\* C12: when a create or update call fails, the error 'Failed to save
\* activity' is set, the editing reference, the form draft and the list are
\* unchanged, no reload is issued and the busy flag is cleared.
C12_SaveFailureKeepsDraft ==
    [][\A c \in BagToSet(pending) :
          (c.op \in {"create", "update"} /\ Answered(c) /\ applied' = None) =>
              /\ error' = Some("Failed to save activity")
              /\ editingEntry' = editingEntry
              /\ Draft' = Draft
              /\ logEntries' = logEntries
              /\ LoadsInFlight(pending') = LoadsInFlight(pending)
              /\ isLoading' = FALSE]_vars

\* an update has failed and the form still holds the edited draft
C12_Witness ==
    /\ error = Some("Failed to save activity")
    /\ IsSome(editingEntry)
    /\ Draft # DraftFor(editingEntry, tz)
    /\ InFlight = 0 /\ issued = 1
    /\ ~isLoading

\* C13: when a load fails, the initial one or a reload, the in-memory list
\* becomes empty, the error 'Failed to load activities' is set and the busy
\* flag is cleared.
C13_LoadFailureClearsList ==
    [][\A c \in BagToSet(pending) :
          (/\ IsLoad(c) /\ Answered(c)
           /\ LoadsInFlight(pending') < LoadsInFlight(pending)
           /\ ~LoadSuccess) =>
              /\ logEntries' = << >>
              /\ error' = Some("Failed to load activities")
              /\ isLoading' = FALSE]_vars

\* a load has failed after a call was issued: the list is empty though
\* the collection is not
C13_Witness ==
    /\ error = Some("Failed to load activities")
    /\ logEntries = << >>
    /\ IsSome(store[Len(store)])
    /\ issued = 1
    /\ InFlight = 0
    /\ ~isLoading

\* call c was issued in this step
Issued(c) == CopiesIn(c, pending') > CopiesIn(c, pending)

\* C14: when a delete call fails, the in-memory list and the editing
\* reference are unchanged, the error 'Failed to delete activity' is set and
\* the busy flag is cleared; issuing the delete does not change the list.
C14_DeleteFailureKeepsList ==
    [][/\ \A c \in BagToSet(pending) :
            (c.op = "delete" /\ Answered(c) /\ applied' = None) =>
                /\ logEntries' = logEntries
                /\ editingEntry' = editingEntry
                /\ error' = Some("Failed to delete activity")
                /\ isLoading' = FALSE
       /\ \A c \in BagToSet(pending') :
            (c.op = "delete" /\ Issued(c)) => logEntries' = logEntries]_vars

\* the delete of the entry being edited has failed: it is still listed and
\* still being edited
C14_Witness ==
    /\ error = Some("Failed to delete activity")
    /\ IsSome(editingEntry)
    /\ \E k \in 1..Len(logEntries) : logEntries[k].id = Get(editingEntry).id
    /\ InFlight = 0 /\ issued = 1
    /\ ~isLoading

\* C15: a create or update call that succeeds clears the editing reference
\* and issues exactly one reload; issuing the save issues no reload.
C15_SaveSuccessReloadsOnce ==
    [][/\ \A c \in BagToSet(pending) :
            (c.op \in {"create", "update"} /\ Answered(c) /\ IsSome(applied')) =>
                /\ editingEntry' = None
                /\ LoadsInFlight(pending') = LoadsInFlight(pending) + 1
       /\ \A c \in BagToSet(pending') :
            (c.op \in {"create", "update"} /\ Issued(c)) =>
                LoadsInFlight(pending') = LoadsInFlight(pending)]_vars

\* an update has just been confirmed: edit mode is left and the reload is
\* the only call in flight
C15_Witness ==
    /\ IsSome(applied) /\ Applied.op = "update"
    /\ editingEntry = None
    /\ LoadsInFlight(pending) = 1 /\ InFlight = 1

\* C16: when a delete of id X succeeds, the in-memory list becomes the
\* current list without the entries of id X, the others unchanged and in
\* the same order, and no reload is issued.
C16_DeletePatchesList ==
    [][\A c \in BagToSet(pending) :
          (c.op = "delete" /\ Answered(c) /\ IsSome(applied')) =>
              /\ logEntries' = SelectSeq(logEntries, LAMBDA entry : entry.id # Get(c.id))
              /\ LoadsInFlight(pending') = LoadsInFlight(pending)]_vars

\* one of two listed entries has just been deleted, the other is still listed
C16_Witness ==
    /\ IsSome(applied) /\ Applied.op = "delete"
    /\ Len(logEntries) = 1
    /\ logEntries[1].id # Applied.id
    /\ Len(store) >= 2

---------------------------------------------------------------------------
\* Properties of form and coordinator together

\* the new-entry defaults of the form
NewEntryDraft ==
    [entryType |-> Bathroom, bathroomActivity |-> Pee, poopSubtype |-> Normal,
     mealNotes |-> Empty, editDate |-> Empty, editTime |-> Empty,
     mealSubtype |-> Given, foodType |-> Kibble]

\* C21: cancelling an edit (the editing reference is cleared without a
\* backend response) calls no save, leaves the form at the new-entry
\* defaults with empty date and time, and changes neither the list nor the
\* stored records.
C21_CancelResetsWithoutSaving ==
    [][(IsSome(editingEntry) /\ editingEntry' = None /\ applied' = None) =>
          /\ call' = None
          /\ pending' = pending
          /\ Draft' = NewEntryDraft
          /\ logEntries' = logEntries
          /\ store' = store]_vars

\* an edit was cancelled while its update was still in flight
C21_Witness ==
    /\ editingEntry = None
    /\ Draft = NewEntryDraft
    /\ issued = 1
    /\ \E c \in BagToSet(pending) : c.op = "update"
    /\ Len(logEntries) = 1

---------------------------------------------------------------------------
\* Properties of the list presenter

\* the display name of a PoopSubtype value
SubtypeName(p) ==
    CASE p = Small  -> <<"S", "m", "a", "l", "l">>
      [] p = Normal -> <<"N", "o", "r", "m", "a", "l">>
      [] p = Huge   -> <<"H", "u", "g", "e">>
      [] p = Sick   -> <<"S", "i", "c", "k">>

\* the reference label of a record: a text is present when it is defined
\* and non-empty
ReferenceLabel(e) ==
    LET given  == e.mealSubtype = Some(Given)
        stolen == e.mealSubtype = Some(Stolen)
        food   == IF IsSome(e.foodType) THEN Get(e.foodType) ELSE Empty
        sub    == e.poopSubtype
    IN  CASE e.type = Meal /\ given /\ food = Empty ->
               <<"M", "e", "a", "l", " ", "(", "G", "i", "v", "e", "n", ")">>
          [] e.type = Meal /\ given /\ food # Empty ->
               <<"M", "e", "a", "l", " ", "(", "G", "i", "v", "e", "n", ":", " ">>
                 \o food \o <<")">>
          [] e.type = Meal /\ stolen /\ food = Empty ->
               <<"M", "e", "a", "l", " ", "(", "S", "t", "o", "l", "e", "n", ")">>
          [] e.type = Meal /\ stolen /\ food # Empty ->
               <<"M", "e", "a", "l", " ", "(", "S", "t", "o", "l", "e", "n", ":", " ">>
                 \o food \o <<")">>
          [] e.type = Meal /\ e.mealSubtype = None /\ food # Empty ->
               <<"M", "e", "a", "l", " ", "(">> \o food \o <<")">>
          [] e.type = Meal /\ e.mealSubtype = None /\ food = Empty ->
               <<"M", "e", "a", "l">>
          [] e.type = Bathroom /\ e.activity = Some(Pee) ->
               <<"P", "e", "e", " ", "B", "r", "e", "a", "k">>
          [] e.type = Bathroom /\ e.activity = Some(Poop) /\ sub = None ->
               <<"P", "o", "o", "p", " ", "B", "r", "e", "a", "k">>
          [] e.type = Bathroom /\ e.activity = Some(Poop) /\ sub # None ->
               <<"P", "o", "o", "p", " ", "B", "r", "e", "a", "k", " ", "(">>
                 \o SubtypeName(Get(sub)) \o <<")">>
          [] e.type = Bathroom /\ e.activity = Some(Both) /\ sub = None ->
               <<"P", "e", "e", " ", "&", " ", "P", "o", "o", "p", " ",
                 "B", "r", "e", "a", "k">>
          [] e.type = Bathroom /\ e.activity = Some(Both) /\ sub # None ->
               <<"P", "e", "e", " ", "&", " ", "P", "o", "o", "p", " ",
                 "B", "r", "e", "a", "k", " ", "(", "P", "o", "o", "p", ":", " ">>
                 \o SubtypeName(Get(sub)) \o <<")">>
          [] e.type = Bathroom /\ e.activity = None ->
               <<"B", "a", "t", "h", "r", "o", "o", "m", " ", "B", "r", "e", "a", "k">>

\* C26: the title of every item the list shows is the reference label of
\* its record, which reads only the fields of the record's own type.
C26_TitleIsReferenceLabel ==
    \A k \in DOMAIN ListView.items :
        ListView.items[k].title = ReferenceLabel(sortedEntries[k])

\* the list shows a Pee & Poop record that has a poop subtype and carries
\* meal fields as well
C26_Witness ==
    \E k \in DOMAIN ListView.items :
        /\ logEntries[k].type = Bathroom
        /\ logEntries[k].activity = Some(Both)
        /\ IsSome(logEntries[k].poopSubtype)
        /\ IsSome(logEntries[k].mealSubtype)
        /\ IsSome(logEntries[k].foodType)

LoadWaiting == \E c \in BagToSet(pending) : IsLoad(c)

\* C28: the mounted list shows 'No activities logged yet.' exactly when its
\* entries are empty and its loading indicator is false; and while a load
\* is waiting for the backend with an empty in-memory list the App shows
\* the spinner and neither the message nor a list.
C28_NoActivitiesMessage ==
    /\ ListView.message <=> (Len(sortedEntries) = 0 /\ ~ ListLoadingProp)
    /\ (LoadWaiting /\ Len(logEntries) = 0) =>
          (SpinnerShown /\ ~ ListMounted)

\* the units of the relative time, largest first
AgoUnits ==
    <<[size |-> SecondsPerYear,   name |-> " years ago"],
      [size |-> SecondsPerMonth,  name |-> " months ago"],
      [size |-> SecondsPerDay,    name |-> " days ago"],
      [size |-> SecondsPerHour,   name |-> " hours ago"],
      [size |-> SecondsPerMinute, name |-> " minutes ago"]>>

\* the relative time of an age of s whole seconds: the largest unit of
\* which at least one has fully elapsed
ReferenceAgo(s) ==
    IF s < JustNowLimit THEN <<"just now">>
    ELSE IF s < SecondsPerMinute THEN <<s, " seconds ago">>
    ELSE LET k == CHOOSE i \in DOMAIN AgoUnits :
                     /\ s >= AgoUnits[i].size
                     /\ \A j \in DOMAIN AgoUnits : s >= AgoUnits[j].size => i <= j
         IN  <<s \div AgoUnits[k].size, AgoUnits[k].name>>

\* C29: formatTimeAgo returns 'just now' for an age below 10 s, 's seconds
\* ago' for 10 <= s < 60, and otherwise 'n <unit> ago' for the largest unit
\* of which at least one has fully elapsed, with n = floor(s / unit); the
\* count is never 0.
C29_TimeAgoByLargestElapsedUnit ==
    IsSome(timeAgo) =>
        /\ Get(timeAgo) = ReferenceAgo(seconds)
        /\ Len(Get(timeAgo)) = 2 => Get(timeAgo)[1] # 0

---------------------------------------------------------------------------
\* Frame of the in-memory list

\* a fetchLogEntries call has returned, with a snapshot or with an error
LoadReturned ==
    /\ \E c \in BagToSet(pending) : IsLoad(c) /\ Answered(c)
    /\ LoadsInFlight(pending') < LoadsInFlight(pending)

\* a deleteDoc call has returned without an error
DeleteSucceeded ==
    \E c \in BagToSet(pending) : c.op = "delete" /\ Answered(c) /\ IsSome(applied')

\* C30: the in-memory list, and every field of every LogEntry in it, changes
\* only in a step in which a load returns or a delete succeeds: no event of
\* the form (load-for-edit, type, activity or subtype change, text, date or
\* time edit, submit, cancel) changes it, not even the timestamp of the
\* entry being edited.
C30_FormNeverChangesList ==
    [][logEntries' # logEntries => (LoadReturned \/ DeleteSucceeded)]_vars

\* an edit with a new date and time has been submitted, and the list still
\* holds the entry with its original timestamp
C30_Witness ==
    /\ IsSome(call)
    /\ IsSome(editingEntry)
    /\ IsSome(Payload.timestamp)
    /\ Get(Payload.timestamp) # Get(editingEntry).timestamp
    /\ \E k \in DOMAIN logEntries : logEntries[k] = Get(editingEntry)

---------------------------------------------------------------------------
\* Properties of sessions: what stays and what goes when calls complete

\* a create or update call has returned without an error
SaveSucceeded ==
    \E c \in BagToSet(pending) :
        c.op \in {"create", "update"} /\ Answered(c) /\ IsSome(applied')

\* C31: after every successful save, of a new entry as well as of an edited
\* one, the form draft is at the new-entry defaults with empty date and time.
C31_SaveResetsDraft ==
    [][SaveSucceeded => Draft' = NewEntryDraft]_vars

\* the ids whose delete has succeeded: ids are never reused and only a
\* successful deleteDoc removes a document of the collection
DeletedIds == (1..Len(store)) \ Present(store)

\* C32: once the delete of id X has succeeded, no entry with id X is in the
\* in-memory list, whatever load results arrive afterwards.
C32_DeletedNeverListed ==
    \A k \in DOMAIN logEntries : logEntries[k].id \notin DeletedIds

\* C33: when a save completes while the entry being edited is not the one
\* that save was submitted for (the save is of a new entry or of another
\* entry), the entry being edited and its draft stay as they are.
C33_SaveEndsOnlyItsOwnSession ==
    [][\A c \in BagToSet(pending) :
          (/\ c.op \in {"create", "update"} /\ Answered(c)
           /\ IsSome(editingEntry)
           /\ c.id # Some(Get(editingEntry).id)) =>
              /\ editingEntry' = editingEntry
              /\ Draft' = Draft]_vars

\* C34: whenever an entry is being edited, the in-memory list holds an entry
\* with the same id.
C34_EditedEntryIsListed ==
    IsSome(editingEntry) =>
        \E k \in DOMAIN logEntries : logEntries[k].id = Get(editingEntry).id

\* C35: whenever the selected bathroom activity is Pee, the selected poop
\* subtype is Normal (every record of the collection was created and
\* updated through this application only).
C35_PeeMeansNormalSubtype ==
    bathroomActivity = Pee => poopSubtype = Normal

\* C36: the field group that is not rendered is at its defaults: for type
\* Meal the activity is Pee and the poop subtype Normal; for type Bathroom
\* the meal subtype is Given, the food type 'Kibble' and the notes empty.
C36_HiddenGroupAtDefaults ==
    /\ MealGroupVisible => (bathroomActivity = Pee /\ poopSubtype = Normal)
    /\ BathroomGroupVisible =>
          (mealSubtype = Given /\ foodType = Kibble /\ mealNotes = Empty)

\* a Pee & Poop record with subtype Small is being edited and the user has
\* switched the type to Meal and typed a food type
C36_Witness ==
    /\ IsSome(editingEntry)
    /\ Get(editingEntry).type = Bathroom
    /\ Get(editingEntry).activity = Some(Both)
    /\ Get(editingEntry).poopSubtype = Some(Small)
    /\ MealGroupVisible
    /\ foodType # Kibble

\* C37: when an entry loaded for edit is submitted with the date and time
\* fields as the form prefilled them, the timestamp of the payload is the
\* entry's original timestamp, in every local timezone.
C37_TimestampRoundTrip ==
    (/\ IsSome(call) /\ IsSome(editingEntry)
     /\ editDate = formatDateForInput(Get(editingEntry).timestamp)
     /\ editTime = formatTimeForInput(Get(editingEntry).timestamp, tz)) =>
        Payload.timestamp = Some(Get(editingEntry).timestamp)

\* the user starts a save or a delete in this step
UserStartsOperation ==
    \E c \in BagToSet(pending') :
        c.op \in {"create", "update", "delete"} /\ Issued(c)

\* the user closes the error banner in this step
UserDismissesError == IsSome(error) /\ error' = None /\ pending' = pending

\* C38: an error message that is displayed stays displayed, unchanged, in
\* every step in which the user neither dismisses it nor starts another
\* operation: no completion of a call in flight and no automatic reload
\* removes it.
C38_ErrorStaysUntilDismissed ==
    [][(IsSome(error) /\ ~ UserStartsOperation /\ ~ UserDismissesError)
          => error' = error]_vars

\* C39: over a backend that answers every call, the busy flag is false
\* whenever no call is in flight, and whenever it is true it becomes false
\* later.
C39_BusyFlagClears ==
    /\ [](InFlight = 0 => ~ isLoading)
    /\ (isLoading ~> ~ isLoading)

\* two operations of the user have overlapped and both have been answered
C39_Witness ==
    /\ issued = MaxCalls
    /\ InFlight = 0
    /\ ~ isLoading
    /\ IsSome(error)

=============================================================================
